---- MODULE Spec2Model ----
(***************************************************************************)
(* A model of WETEXSeleniumScraper.scrape_all_pages (src/wetex_scraper.py) *)
(* and of the helpers it calls.  The browser is the environment: what it   *)
(* shows, and which of its calls raise, is chosen nondeterministically:    *)
(* the site fills the table in asynchronously, so that the answer to a     *)
(* request may land during any later sleep or wait, also while rows are    *)
(* being read.                                                             *)
(* Texts are sequences of characters (one-character strings; a longer      *)
(* string stands for a run of non-blank characters).                       *)
(***************************************************************************)
EXTENDS Integers, Sequences, FiniteSets, TLC

VARIABLES
    pc,                   \* position in scrape_all_pages
    driver,               \* self.driver: "none", "open", "closed"
    temp_dir,             \* self.temp_dir: "none", "exists", "removed"
    quits,                \* number of calls of self.driver.quit()
    max_pages,            \* the argument: <<>> is None, <<n>> is the integer n
    total_pages,
    current_page,
    consecutive_failures,
    all_exhibitors,
    listings,             \* the pages the site holds a listing of
    shown,                \* the table the browser shows (the live DOM)
    requested,            \* the page the site was last asked to show
    display,              \* history: what the TotalRecords element showed
    scan,                 \* history: what the pagination scan read
    asked,                \* history: the pages the site was asked to show
    page_data,            \* what the last extraction or fallback returned
    read,                 \* history: the table scrape_current_page read last
    timed_out,            \* history: a wait of it (lines 199, 204-206) timed out
    log,                  \* history: one entry per finished page iteration
    fatal,                \* the outer "except Exception" handler ran
    outcome,              \* "running", "returned", "raised"
    result,               \* the value returned
    rendered,             \* the page handed to scrape_current_page has the table
    sample,               \* the rows of a table handed to the extractors
    extracted,            \* <<what scrape_current_page returned for sample>>
    scripted              \* <<what get_data_via_javascript returned for sample>>

vars == <<pc, driver, temp_dir, quits, max_pages, total_pages, current_page,
          consecutive_failures, all_exhibitors, page_data, listings, shown, requested,
          asked, read, timed_out, display, scan, log, fatal, outcome, result, rendered,
          sample, extracted, scripted>>

trial == <<rendered, sample, extracted, scripted>>

----------------------------------------------------------------------------
(* Bounds of the model. *)

\* longest text of the TotalRecords element explored by SpecCount
MaxTextLen == 3

\* explored by SpecExtract: most cells of a row, most cells of a row that
\* has cells flagged both fixed-col and hidden-col, most rows of a table
MaxCells == 7
MaxCellsBoth == 4
MaxRows == 3

----------------------------------------------------------------------------
(* Texts. *)

Blank == " "
Digits == {"0", "1", "2", "3", "4", "5", "6", "7", "8", "9"}

DigitVal(c) ==
    CASE c = "0" -> 0 [] c = "1" -> 1 [] c = "2" -> 2 [] c = "3" -> 3
      [] c = "4" -> 4 [] c = "5" -> 5 [] c = "6" -> 6 [] c = "7" -> 7
      [] c = "8" -> 8 [] c = "9" -> 9

RECURSIVE LStrip(_)
LStrip(s) == IF s # <<>> /\ Head(s) = Blank THEN LStrip(Tail(s)) ELSE s

RECURSIVE RStrip(_)
RStrip(s) ==
    IF s # <<>> /\ s[Len(s)] = Blank THEN RStrip(SubSeq(s, 1, Len(s) - 1)) ELSE s

\* str.strip() / String.prototype.trim()
Strip(s) == RStrip(LStrip(s))

\* str.isdigit()
IsDigit(s) == s # <<>> /\ \A i \in 1..Len(s) : s[i] \in Digits

RECURSIVE DigitsValue(_)
DigitsValue(s) ==
    IF s = <<>> THEN 0
    ELSE 10 * DigitsValue(SubSeq(s, 1, Len(s) - 1)) + DigitVal(s[Len(s)])

\* the digits of int(): single underscores are allowed between digits
ValidDigits(s) ==
    /\ s # <<>>
    /\ s[1] \in Digits
    /\ s[Len(s)] \in Digits
    /\ \A i \in 1..Len(s) : s[i] \in Digits \/ s[i] = "_"
    /\ \A i \in 1..(Len(s) - 1) : ~(s[i] = "_" /\ s[i + 1] = "_")

NoUnderscore(c) == c # "_"

\* int(text): [ok |-> FALSE] stands for ValueError
ParseInt(text) ==
    LET s == Strip(text)
        signed == s # <<>> /\ s[1] \in {"+", "-"}
        body == IF signed THEN Tail(s) ELSE s
        mag == DigitsValue(SelectSeq(body, NoUnderscore))
    IN  IF ValidDigits(body)
        THEN [ok |-> TRUE, val |-> IF signed /\ s[1] = "-" THEN -mag ELSE mag]
        ELSE [ok |-> FALSE, val |-> 0]

----------------------------------------------------------------------------
(* The table and its rows.  A row is [marker, broken, cells]: marker says  *)
(* the row carries the class m19-table__content-table-row, broken that     *)
(* reading its cells raises; a cell is [cls, text] with cls the subset of  *)
(* {"fixed-col", "hidden-col"} among its classes.                          *)

Fields == <<"Stand No", "Country", "Sector", "Business Activity", "Hall">>

\* the dictionary of lines 219-226
EmptyRecord ==
    "Exhibitor Name" :> <<>> @@ "Stand No" :> <<>> @@ "Country" :> <<>> @@
    "Sector" :> <<>> @@ "Business Activity" :> <<>> @@ "Hall" :> <<>>

\* ClassifyCells with "cell_index += 1" of line 247 outside the elif: a
\* hidden cell takes an ordinal too
RECURSIVE ClassifyCellsCountsHidden(_, _, _)
ClassifyCellsCountsHidden(cells, cell_index, exhibitor_data) ==
    IF cells = <<>> THEN exhibitor_data
    ELSE LET cell == Head(cells)
             cell_text == Strip(cell.text)
         IN  IF "fixed-col" \in cell.cls
             THEN ClassifyCellsCountsHidden(Tail(cells), cell_index,
                      [exhibitor_data EXCEPT !["Exhibitor Name"] = cell_text])
             ELSE IF "hidden-col" \notin cell.cls
             THEN ClassifyCellsCountsHidden(Tail(cells), cell_index + 1,
                      IF cell_index + 1 \in 1..Len(Fields)
                      THEN [exhibitor_data EXCEPT ![Fields[cell_index + 1]] = cell_text]
                      ELSE exhibitor_data)
             ELSE ClassifyCellsCountsHidden(Tail(cells), cell_index + 1, exhibitor_data)

\* lines 229-247: the loop over the cells of one row
RECURSIVE ClassifyCells(_, _, _)
ClassifyCells(cells, cell_index, exhibitor_data) ==
    IF cells = <<>> THEN exhibitor_data
    ELSE LET cell == Head(cells)
             cell_text == Strip(cell.text)
         IN  IF "fixed-col" \in cell.cls
             THEN ClassifyCells(Tail(cells), cell_index,
                      [exhibitor_data EXCEPT !["Exhibitor Name"] = cell_text])
             ELSE IF "hidden-col" \notin cell.cls
             THEN ClassifyCells(Tail(cells), cell_index + 1,
                      IF cell_index + 1 \in 1..Len(Fields)
                      THEN [exhibitor_data EXCEPT ![Fields[cell_index + 1]] = cell_text]
                      ELSE exhibitor_data)
             ELSE ClassifyCells(Tail(cells), cell_index, exhibitor_data)

\* ExtractRows without the handler of lines 252-254: a row that raises ends
\* the loop, and the handler of lines 256-257 returns the records so far
RECURSIVE ExtractRowsUntilFailure(_)
ExtractRowsUntilFailure(rows) ==
    IF rows = <<>> THEN <<>>
    ELSE LET row == Head(rows)
             exhibitor_data == ClassifyCells(row.cells, 0, EmptyRecord)
         IN  IF row.broken THEN <<>>
             ELSE IF exhibitor_data["Exhibitor Name"] # <<>>
             THEN <<exhibitor_data>> \o ExtractRowsUntilFailure(Tail(rows))
             ELSE ExtractRowsUntilFailure(Tail(rows))

\* lines 215-254: the loop over the rows; a row that raises is skipped
RECURSIVE ExtractRows(_)
ExtractRows(rows) ==
    IF rows = <<>> THEN <<>>
    ELSE LET row == Head(rows)
             exhibitor_data == ClassifyCells(row.cells, 0, EmptyRecord)
         IN  IF ~row.broken /\ exhibitor_data["Exhibitor Name"] # <<>>
             THEN <<exhibitor_data>> \o ExtractRows(Tail(rows))
             ELSE ExtractRows(Tail(rows))

IsDataRow(row) == row.marker

\* ScrapeCurrentPage with every tr of the table body taken at line 212
ScrapeCurrentPageEveryRow(view) ==
    IF ~view.table THEN <<>>
    ELSE IF SelectSeq(view.rows, IsDataRow) = <<>> THEN <<>>
    ELSE ExtractRows(view.rows)

\* scrape_current_page on the table the browser shows: [table, rows]
ScrapeCurrentPage(view) ==
    IF ~view.table THEN <<>>                                  \* lines 199-201
    ELSE IF SelectSeq(view.rows, IsDataRow) = <<>> THEN <<>>  \* lines 204-206, 256
    ELSE ExtractRows(SelectSeq(view.rows, IsDataRow))

\* lines 152-164: the script's rows.forEach, on the rows of the fragment
RECURSIVE ScriptRows(_)
ScriptRows(rows) ==
    IF rows = <<>> THEN <<>>
    ELSE LET cells == Head(rows).cells
         IN  IF Len(cells) >= 7
             THEN <<[name |-> Strip(cells[2].text), stand |-> Strip(cells[3].text),
                     country |-> Strip(cells[4].text), sector |-> Strip(cells[5].text),
                     activity |-> Strip(cells[6].text), hall |-> Strip(cells[7].text)]>>
                  \o ScriptRows(Tail(rows))
             ELSE ScriptRows(Tail(rows))

\* ItemsToRecords without the test of line 183
RECURSIVE ItemsToRecordsUnfiltered(_)
ItemsToRecordsUnfiltered(items) ==
    IF items = <<>> THEN <<>>
    ELSE LET item == Head(items)
         IN  <<"Exhibitor Name" :> item.name @@ "Stand No" :> item.stand @@
               "Country" :> item.country @@ "Sector" :> item.sector @@
               "Business Activity" :> item.activity @@ "Hall" :> item.hall>>
             \o ItemsToRecordsUnfiltered(Tail(items))

\* lines 173-184: the script's result turned into records
RECURSIVE ItemsToRecords(_)
ItemsToRecords(items) ==
    IF items = <<>> THEN <<>>
    ELSE LET item == Head(items)
             exhibitor_data ==
                 "Exhibitor Name" :> item.name @@ "Stand No" :> item.stand @@
                 "Country" :> item.country @@ "Sector" :> item.sector @@
                 "Business Activity" :> item.activity @@ "Hall" :> item.hall
         IN  IF exhibitor_data["Exhibitor Name"] # <<>>
             THEN <<exhibitor_data>> \o ItemsToRecords(Tail(items))
             ELSE ItemsToRecords(Tail(items))

\* get_data_via_javascript on the endpoint's answer: [raises, status, rows]
GetDataViaJavascript(response) ==
    IF response.raises THEN <<>>                              \* lines 188-191
    ELSE IF response.status # 200 THEN <<>>                   \* line 168
    ELSE ItemsToRecords(ScriptRows(SelectSeq(response.rows, IsDataRow)))

----------------------------------------------------------------------------
(* What the site serves. *)

Cell(cls, text) == [cls |-> cls, text |-> text]

ListingRow(name) ==
    [marker |-> TRUE, broken |-> FALSE,
     cells |-> <<Cell({"hidden-col"}, <<"id">>), Cell({"fixed-col"}, name),
                 Cell({}, <<"B12", Blank>>), Cell({}, <<"UAE">>),
                 Cell({}, <<Blank, "Energy">>), Cell({}, <<"Solar">>),
                 Cell({}, <<"Hall", Blank, "3">>)>>]

HeaderRow ==
    [marker |-> FALSE, broken |-> FALSE,
     cells |-> <<Cell({"fixed-col"}, <<"Exhibitor">>), Cell({}, <<"Stand">>)>>]

StaleRow == [ListingRow(<<"gone">>) EXCEPT !.broken = TRUE]

ShortRow ==
    [marker |-> TRUE, broken |-> FALSE,
     cells |-> <<Cell({"hidden-col"}, <<"id">>), Cell({"fixed-col"}, <<Blank>>)>>]

ExhibitorName(page, i) == <<"Ex", ToString(page), "-", ToString(i)>>

\* n exhibitors of a page, among a header row, a row without a name and a
\* short row whose name is blank
FragmentRows(page, n) ==
    <<HeaderRow>> \o [i \in 1..n |-> ListingRow(ExhibitorName(page, i))]
    \o <<ListingRow(<<>>), ShortRow>>

\* the same in the live table, where a row may also have gone stale
ListingRows(page, n) == FragmentRows(page, n) \o <<StaleRow>>

\* line 338 (and the Records parameter of line 130)
records_per_page == 20

\* the sizes of a listing the endpoint answers with
FragmentSizes == {15}

\* The table the browser shows is [kind, page]: no table at all, a table
\* still without data rows, or the listing of a page of the site.
NoTable == [kind |-> "none", page |-> 0]
EmptyTable == [kind |-> "empty", page |-> 0]
Listing(page) == [kind |-> "listing", page |-> page]

\* the DOM of a shown table: [table, rows]
Dom(view) ==
    [table |-> view.kind # "none",
     rows |-> IF view.kind = "listing" THEN ListingRows(view.page, records_per_page)
              ELSE IF view.kind = "empty" THEN <<HeaderRow>>
              ELSE <<>>]

\* what the browser may show once page `page` was asked for: no table, the
\* table still without data rows, or the listing of the page when the site
\* has one
Views(page) == {NoTable, EmptyTable} \cup {Listing(p) : p \in {page} \cap listings}

\* what the endpoint may answer for the zero-based page number
Responses(page_number) ==
    {[raises |-> TRUE, status |-> 0, rows |-> <<>>],
     [raises |-> FALSE, status |-> 500, rows |-> <<>>]}
    \cup {[raises |-> FALSE, status |-> 200, rows |-> FragmentRows(page_number + 1, n)] :
            n \in IF page_number + 1 \in listings THEN FragmentSizes ELSE {0}}

----------------------------------------------------------------------------
(* Lines 325-357: the number of pages. *)

None == <<>>
Truthy(mp) == mp # None /\ mp[1] # 0

Min(a, b) == IF a <= b THEN a ELSE b

RECURSIVE MaxOf(_)
MaxOf(ns) ==
    IF Len(ns) = 1 THEN ns[1]
    ELSE LET m == MaxOf(Tail(ns)) IN IF ns[1] >= m THEN ns[1] ELSE m

\* The TotalRecords element is [present, text, cond, arg]: whether it is
\* found, and its text at each of the three reads: text at the poll that
\* ends the wait of lines 333-335, cond in the condition of line 337, arg in
\* int() of line 337.  The page may change the text between the reads.
\* DisplayReadable is FALSE when lines 328-337 raise.
DisplayReadable(d) ==
    /\ d.present                                   \* lines 328-330
    /\ Strip(d.text) # <<>>                        \* lines 333-335
    /\ d.cond # <<>> => ParseInt(d.arg).ok         \* line 337

\* PagesFromDisplay with "total_records // records_per_page" at line 339
PagesFromDisplayFloor(d, mp) ==
    LET total_records == IF d.cond # <<>> THEN ParseInt(d.arg).val ELSE 0
        pages == total_records \div records_per_page
    IN  IF Truthy(mp) THEN Min(pages, mp[1]) ELSE pages

\* lines 337-345
PagesFromDisplay(d, mp) ==
    LET total_records == IF d.cond # <<>> THEN ParseInt(d.arg).val ELSE 0
        pages == (total_records + records_per_page - 1) \div records_per_page
    IN  IF Truthy(mp) THEN Min(pages, mp[1]) ELSE pages

\* line 353: the data-num attributes that are digits, as integers
RECURSIVE PageNumbers(_)
PageNumbers(attrs) ==
    IF attrs = <<>> THEN <<>>
    ELSE IF IsDigit(Head(attrs))
         THEN <<ParseInt(Head(attrs)).val>> \o PageNumbers(Tail(attrs))
         ELSE PageNumbers(Tail(attrs))

\* lines 350-357: the pagination scan [raises, attrs]
PagesFromScan(sc, mp) ==
    IF sc.raises
    THEN IF Truthy(mp) THEN mp[1] ELSE 5                           \* line 357
    ELSE LET page_numbers == PageNumbers(sc.attrs)
         IN  IF page_numbers # <<>> THEN MaxOf(page_numbers) ELSE 5  \* line 354

NotScanned == [raises |-> FALSE, attrs |-> <<<<"not read">>>>]
NoDisplay == [present |-> FALSE, text |-> <<>>, cond |-> <<>>, arg |-> <<>>]

\* the element shows the same text at its three reads
Shows(t) == [present |-> TRUE, text |-> t, cond |-> t, arg |-> t]

----------------------------------------------------------------------------
(* scrape_all_pages, lines 295-451. *)

RunMaxPages == {None, <<2>>}

\* the site lists every page a run of up to four pages asks for
RunListings == 1..5

\* scrape_current_page has not run: no table read, no redraw while reading
NotRead == [view |-> NoTable, stop |-> 0]

Start(limits, site) ==
    /\ listings = site
    /\ pc = "setup"
    /\ driver = "none"
    /\ temp_dir = "none"
    /\ quits = 0
    /\ max_pages \in limits
    /\ total_pages = 0
    /\ current_page = 0
    /\ consecutive_failures = 0
    /\ all_exhibitors = <<>>
    /\ page_data = <<>>
    /\ shown = NoTable
    /\ requested = 0
    /\ asked = {}
    /\ read = NotRead
    /\ timed_out = FALSE
    /\ display = NoDisplay
    /\ scan = NotScanned
    /\ log = <<>>
    /\ fatal = FALSE
    /\ outcome = "running"
    /\ result = <<>>

\* no table has been handed to the extractors
NoTrial ==
    /\ rendered = FALSE
    /\ sample = <<>>
    /\ extracted = <<>>
    /\ scripted = <<>>

Init == Start(RunMaxPages, RunListings) /\ NoTrial

run_vars == <<max_pages, total_pages, current_page, consecutive_failures,
              all_exhibitors, page_data, read, timed_out, display, scan, log, outcome,
              result>>

\* lines 434-435: an exception reaches the handler of scrape_all_pages
Fatal ==
    /\ pc' = "finally"
    /\ fatal' = TRUE

\* the site is asked for a page: driver.get, a click on a pagination item or
\* SetPageNumber
Ask(page) ==
    /\ requested' = page
    /\ asked' = asked \cup {page}

\* The table once the site was asked for `page`.  The site fills it in
\* asynchronously: it is still the one shown, or gone, or emptied, or redrawn with
\* the answer to this request or to any request made before, which may land
\* after later requests were made.
Redrawn(page) ==
    {shown} \cup Views(page) \cup {Listing(q) : q \in asked \cap listings}

\* lines 28-77, 301: setup_driver
SetupDriver ==
    /\ pc = "setup"
    /\ \/ /\ temp_dir' = "exists"                  \* lines 40, 72
          /\ driver' = "open"                      \* line 75
          /\ pc' = "get"
          /\ UNCHANGED fatal
       \/ /\ temp_dir' = "exists"                  \* line 75 raises
          /\ UNCHANGED driver
          /\ Fatal
       \/ /\ UNCHANGED <<temp_dir, driver>>        \* line 40 raises
          /\ Fatal
    /\ UNCHANGED <<quits, shown, requested, asked>>
    /\ UNCHANGED run_vars
    /\ UNCHANGED trial
    /\ UNCHANGED listings

\* lines 305-323: driver.get and the waits for the table
OpenPage ==
    /\ pc = "get"
    /\ \/ /\ Ask(1)                                \* lines 305-318
          /\ \E v \in Views(1) : shown' = v
          /\ pc' = "count"
          /\ UNCHANGED fatal
       \/ /\ Ask(1)                                \* line 311 or 314 raises, no timeout
          /\ \E v \in Views(1) : shown' = v
          /\ Fatal
       \/ /\ UNCHANGED <<shown, requested, asked>> \* line 305 raises
          /\ Fatal
    /\ UNCHANGED <<driver, temp_dir, quits>>
    /\ UNCHANGED run_vars
    /\ UNCHANGED trial
    /\ UNCHANGED listings

\* lines 325-361, the TotalRecords element and the scan drawn from the sets;
\* the table may be redrawn during the waits of lines 328-335
DeterminePages(displays, scans) ==
    /\ pc = "count"
    /\ \E v \in Redrawn(requested) : shown' = v
    /\ \E d \in displays :
         /\ display' = d
         /\ IF DisplayReadable(d)
            THEN /\ total_pages' = PagesFromDisplay(d, max_pages)
                 /\ scan' = NotScanned
            ELSE \E sc \in scans :
                    /\ total_pages' = PagesFromScan(sc, max_pages)
                    /\ scan' = sc
    /\ current_page' = 1                           \* line 360
    /\ consecutive_failures' = 0                   \* line 361
    /\ pc' = "loop"
    /\ UNCHANGED <<driver, temp_dir, quits, max_pages, all_exhibitors, page_data,
                   read, timed_out, requested, asked, log, fatal, outcome, result>>
    /\ UNCHANGED trial
    /\ UNCHANGED listings

browser == <<driver, temp_dir, quits>>
frame == <<max_pages, total_pages, display, scan, outcome, result>>

\* the rows scrape_current_page lists at line 212
DataRows(view) == SelectSeq(Dom(view).rows, IsDataRow)

HasDataRows(view) == Dom(view).table /\ DataRows(view) # <<>>

\* a wait for the table (lines 199-201) or for a data row (lines 204-206,
\* 285-287, 386-388) sees none
TimesOut(view) == ~HasDataRows(view)

\* LoopTest with "consecutive_failures <= 3" at line 363
LoopTestAllowsThree ==
    /\ pc = "loop"
    /\ IF current_page <= total_pages /\ consecutive_failures <= 3
       THEN pc' = IF current_page > 1 THEN "navigate" ELSE "wait_rows"
       ELSE pc' = "finally"
    /\ UNCHANGED <<current_page, consecutive_failures, all_exhibitors, page_data,
                   read, timed_out, shown, requested, asked, log, fatal>>
    /\ UNCHANGED browser
    /\ UNCHANGED frame
    /\ UNCHANGED trial
    /\ UNCHANGED listings

\* LoopTest with "current_page < total_pages" at line 363
LoopTestSkipsLastPage ==
    /\ pc = "loop"
    /\ IF current_page < total_pages /\ consecutive_failures < 3
       THEN pc' = IF current_page > 1 THEN "navigate" ELSE "wait_rows"
       ELSE pc' = "finally"
    /\ UNCHANGED <<current_page, consecutive_failures, all_exhibitors, page_data,
                   read, timed_out, shown, requested, asked, log, fatal>>
    /\ UNCHANGED browser
    /\ UNCHANGED frame
    /\ UNCHANGED trial
    /\ UNCHANGED listings

\* line 363: the loop condition
LoopTest ==
    /\ pc = "loop"
    /\ IF current_page <= total_pages /\ consecutive_failures < 3
       THEN pc' = IF current_page > 1 THEN "navigate" ELSE "wait_rows"   \* line 367
       ELSE pc' = "finally"                                              \* lines 431-432
    /\ UNCHANGED <<current_page, consecutive_failures, all_exhibitors, page_data,
                   read, timed_out, shown, requested, asked, log, fatal>>
    /\ UNCHANGED browser
    /\ UNCHANGED frame
    /\ UNCHANGED trial
    /\ UNCHANGED listings

\* MergePage without lines 398, 414, 421: the counter is not reset
MergePageKeepsCount(records, path) ==
    /\ all_exhibitors' = all_exhibitors \o records
    /\ UNCHANGED consecutive_failures
    /\ log' = Append(log, [page |-> current_page, path |-> path,
                            found |-> Len(records),
                            total |-> Len(all_exhibitors) + Len(records)])
    /\ current_page' = current_page + 1
    /\ pc' = "loop"

\* MergePage with "all_exhibitors = page_data" for the extend of lines 396,
\* 412 and 419
MergePageReplaces(records, path) ==
    /\ all_exhibitors' = records
    /\ consecutive_failures' = 0
    /\ log' = Append(log, [page |-> current_page, path |-> path,
                            found |-> Len(records),
                            total |-> Len(all_exhibitors) + Len(records)])
    /\ current_page' = current_page + 1
    /\ pc' = "loop"

\* lines 396-398, 412-414, 419-421, then 425: the page's records are merged
MergePage(records, path) ==
    /\ all_exhibitors' = all_exhibitors \o records
    /\ consecutive_failures' = 0
    /\ log' = Append(log, [page |-> current_page, path |-> path,
                            found |-> Len(records),
                            total |-> Len(all_exhibitors) + Len(records)])
    /\ current_page' = current_page + 1
    /\ pc' = "loop"

\* lines 376-378, or 423 then 425: the page gave nothing
FailPage(path) ==
    /\ consecutive_failures' = consecutive_failures + 1
    /\ log' = Append(log, [page |-> current_page, path |-> path, found |-> 0,
                            total |-> Len(all_exhibitors)])
    /\ current_page' = current_page + 1
    /\ pc' = "loop"
    /\ UNCHANGED all_exhibitors

\* lines 428-429: the pause before the next page, when there is one; the
\* table, one of `tables` when the pause starts, may be redrawn during it
Pause(tables) ==
    shown' \in IF current_page + 1 <= total_pages THEN Redrawn(requested) \cup tables
               ELSE tables

\* lines 261-293, called at line 368: click_page_number(current_page)
ClickPageNumber ==
    /\ pc = "navigate"
    /\ \/ /\ Ask(current_page)                     \* lines 276-289: clicked, rows seen
          /\ \E v \in Redrawn(current_page) : HasDataRows(v) /\ shown' = v
          /\ pc' = "wait_rows"
       \/ /\ Ask(current_page + 1)                 \* lines 268-273: SetPageNumber(page_num)
          /\ \E v \in Redrawn(current_page + 1) : shown' = v
          /\ pc' = "wait_rows"
       \/ /\ Ask(current_page)                     \* clicked, lines 285-287 time out or raise
          /\ \E v \in Redrawn(current_page) : shown' = v
          /\ pc' = "alt_nav"
       \/ /\ UNCHANGED <<requested, asked>>        \* line 266, 271, 277 or 279 raises,
          /\ \E v \in Redrawn(requested) : shown' = v   \* the last after the sleep of 278
          /\ pc' = "alt_nav"
    /\ UNCHANGED <<current_page, consecutive_failures, all_exhibitors, page_data,
                   read, timed_out, log, fatal>>
    /\ UNCHANGED browser
    /\ UNCHANGED frame
    /\ UNCHANGED trial
    /\ UNCHANGED listings

\* AlternativeNavigation without line 376: the failed advance is not counted
AlternativeNavigationUncounted ==
    /\ pc = "alt_nav"
    /\ \/ /\ Ask(current_page)
          /\ \E v \in Redrawn(current_page) : shown' = v
          /\ pc' = "wait_rows"
          /\ UNCHANGED <<current_page, consecutive_failures, all_exhibitors, log>>
       \/ /\ log' = Append(log, [page |-> current_page, path |-> "navigation",
                                  found |-> 0, total |-> Len(all_exhibitors)])
          /\ current_page' = current_page + 1
          /\ pc' = "loop"
          /\ UNCHANGED <<consecutive_failures, all_exhibitors, requested, asked, shown>>
    /\ UNCHANGED <<page_data, read, timed_out, fatal>>
    /\ UNCHANGED browser
    /\ UNCHANGED frame
    /\ UNCHANGED trial
    /\ UNCHANGED listings

\* AlternativeNavigation without line 377: the page is tried again
AlternativeNavigationSamePage ==
    /\ pc = "alt_nav"
    /\ \/ /\ Ask(current_page)
          /\ \E v \in Redrawn(current_page) : shown' = v
          /\ pc' = "wait_rows"
          /\ UNCHANGED <<current_page, consecutive_failures, all_exhibitors, log>>
       \/ /\ consecutive_failures' = consecutive_failures + 1
          /\ log' = Append(log, [page |-> current_page, path |-> "navigation",
                                  found |-> 0, total |-> Len(all_exhibitors)])
          /\ pc' = "loop"
          /\ UNCHANGED <<current_page, all_exhibitors, requested, asked, shown>>
    /\ UNCHANGED <<page_data, read, timed_out, fatal>>
    /\ UNCHANGED browser
    /\ UNCHANGED frame
    /\ UNCHANGED trial
    /\ UNCHANGED listings

\* AlternativeNavigation with a bare "continue" at lines 376-378: the failed
\* advance neither counts nor moves to the next page
AlternativeNavigationBareContinue ==
    /\ pc = "alt_nav"
    /\ \/ /\ Ask(current_page)
          /\ \E v \in Redrawn(current_page) : shown' = v
          /\ pc' = "wait_rows"
       \/ /\ pc' = "loop"
          /\ UNCHANGED <<requested, asked, shown>>
    /\ UNCHANGED <<current_page, consecutive_failures, all_exhibitors, log>>
    /\ UNCHANGED <<page_data, read, timed_out, fatal>>
    /\ UNCHANGED browser
    /\ UNCHANGED frame
    /\ UNCHANGED trial
    /\ UNCHANGED listings

\* AlternativeNavigation without the "continue" of line 378: after the
\* failed advance the body goes on to the wait and the extraction
AlternativeNavigationFallsThrough ==
    /\ pc = "alt_nav"
    /\ \/ /\ Ask(current_page)
          /\ \E v \in Redrawn(current_page) : shown' = v
          /\ pc' = "wait_rows"
          /\ UNCHANGED <<current_page, consecutive_failures, all_exhibitors, log>>
       \/ /\ consecutive_failures' = consecutive_failures + 1
          /\ current_page' = current_page + 1
          /\ pc' = "wait_rows"
          /\ UNCHANGED <<all_exhibitors, log, requested, asked, shown>>
    /\ UNCHANGED <<page_data, read, timed_out, fatal>>
    /\ UNCHANGED browser
    /\ UNCHANGED frame
    /\ UNCHANGED trial
    /\ UNCHANGED listings

\* lines 369-378: SetPageNumber(current_page - 1)
AlternativeNavigation ==
    /\ pc = "alt_nav"
    /\ \/ /\ Ask(current_page)                     \* lines 373-374
          /\ \E v \in Redrawn(current_page) : shown' = v
          /\ pc' = "wait_rows"
          /\ UNCHANGED <<current_page, consecutive_failures, all_exhibitors, log>>
       \/ /\ FailPage("navigation")                \* lines 375-378
          /\ UNCHANGED <<requested, asked, shown>>
    /\ UNCHANGED <<page_data, read, timed_out, fatal>>
    /\ UNCHANGED browser
    /\ UNCHANGED frame
    /\ UNCHANGED trial
    /\ UNCHANGED listings

\* lines 380-390: debug_table_state and the wait for data rows
WaitForRows ==
    /\ pc = "wait_rows"
    /\ \E v \in Redrawn(requested) : shown' = v
    /\ \/ /\ pc' = "primary"
          /\ UNCHANGED fatal
       \/ Fatal                                    \* lines 386-388 raise, no timeout
    /\ UNCHANGED <<current_page, consecutive_failures, all_exhibitors, page_data,
                   read, timed_out, requested, asked, log>>
    /\ UNCHANGED browser
    /\ UNCHANGED frame
    /\ UNCHANGED trial
    /\ UNCHANGED listings

\* lines 215-254 when the page redraws its table while the rows are read:
\* the rows from the one numbered `stop` on have gone stale and reading
\* them raises; stop = 0 when the table is not redrawn
ReadUntil(view, stop) ==
    LET rows == SelectSeq(view.rows, IsDataRow)
    IN  [table |-> view.table,
         rows |-> [i \in 1..Len(rows) |->
                      IF stop > 0 /\ i >= stop THEN [rows[i] EXCEPT !.broken = TRUE]
                      ELSE rows[i]]]

\* the rows before which a redraw may come, of those in `stops`
StopsIn(view, stops) == {0} \cup {s \in stops : s \in 1..Len(DataRows(view))}

\* the table when scrape_current_page returns after reading rows: the one
\* it read, or after a redraw any the site may show
AfterRead(view, stop) == IF stop = 0 THEN {view} ELSE Redrawn(requested)

\* lines 208-254 on every table the site may show and every row before
\* which a redraw may come: the records scrape_current_page returns
PageRecords ==
    [view \in {NoTable, EmptyTable} \cup {Listing(p) : p \in RunListings} |->
        [stop \in 0..Len(DataRows(view)) |->
            ScrapeCurrentPage(ReadUntil(Dom(view), stop))]]

\* PrimaryExtraction with the failure counted at line 400, without the
\* retry and the fallback of lines 402-423
PrimaryExtractionGivesUp(stops) ==
    /\ pc = "primary"
    /\ \E view \in Redrawn(requested) :
       \/ /\ \E seen \in Redrawn(requested) : TimesOut(seen)     \* lines 199-201, 204-206
          /\ timed_out' = TRUE
          /\ read' = [view |-> view, stop |-> 0]
          /\ page_data' = <<>>
          /\ FailPage("none")
          /\ Pause({view})
       \/ /\ timed_out' = FALSE            \* line 199, 205, 212 or 213 raises, lines 256-257
          /\ read' = [view |-> view, stop |-> 0]
          /\ page_data' = <<>>
          /\ FailPage("none")
          /\ Pause({view})
       \/ /\ \E seen \in Redrawn(requested) : HasDataRows(seen)  \* lines 204-254
          /\ \E stop \in StopsIn(view, stops) :
             /\ timed_out' = FALSE
             /\ read' = [view |-> view, stop |-> stop]
             /\ page_data' = PageRecords[view][stop]
             /\ IF page_data' # <<>>
                THEN MergePage(page_data', "primary")
                ELSE FailPage("none")
             /\ Pause(AfterRead(view, stop))
    /\ UNCHANGED <<requested, asked, fatal>>
    /\ UNCHANGED browser
    /\ UNCHANGED frame
    /\ UNCHANGED trial
    /\ UNCHANGED listings

\* lines 393-400: scrape_current_page().  Either a wait of it sees no
\* table (line 199) or no data row (lines 204-206) at any poll and times
\* out, and `view` is the table shown when it gives up, one poll interval
\* after its last look; or a driver call made before the rows are read
\* raises, no wait having timed out, and the handler of lines 256-257
\* returns nothing with `view` shown; or the wait sees data rows and, its
\* sleep over, the rows of the table `view` then shown are read, with a
\* redraw before one of the rows `stops` or none.
PrimaryExtraction(stops) ==
    /\ pc = "primary"
    /\ \E view \in Redrawn(requested) :
       \/ /\ \E seen \in Redrawn(requested) : TimesOut(seen)     \* lines 199-201, 204-206
          /\ timed_out' = TRUE
          /\ read' = [view |-> view, stop |-> 0]
          /\ page_data' = <<>>
          /\ shown' = view
          /\ pc' = "scroll"
          /\ UNCHANGED <<current_page, consecutive_failures, all_exhibitors, log>>
       \/ /\ timed_out' = FALSE            \* line 199, 205, 212 or 213 raises, lines 256-257
          /\ read' = [view |-> view, stop |-> 0]
          /\ page_data' = <<>>
          /\ shown' = view
          /\ pc' = "scroll"
          /\ UNCHANGED <<current_page, consecutive_failures, all_exhibitors, log>>
       \/ /\ \E seen \in Redrawn(requested) : HasDataRows(seen)  \* lines 204-254
          /\ \E stop \in StopsIn(view, stops) :
             /\ timed_out' = FALSE
             /\ read' = [view |-> view, stop |-> stop]
             /\ page_data' = PageRecords[view][stop]
             /\ IF page_data' # <<>>
                THEN /\ MergePage(page_data', "primary")
                     /\ Pause(AfterRead(view, stop))
                ELSE /\ pc' = "scroll"
                     /\ shown' \in AfterRead(view, stop)
                     /\ UNCHANGED <<current_page, consecutive_failures,
                                    all_exhibitors, log>>
    /\ UNCHANGED <<requested, asked, fatal>>
    /\ UNCHANGED browser
    /\ UNCHANGED frame
    /\ UNCHANGED trial
    /\ UNCHANGED listings

\* lines 402-407
ScrollPage ==
    /\ pc = "scroll"
    /\ \E v \in Redrawn(requested) : shown' = v
    /\ \/ /\ pc' = "retry"
          /\ UNCHANGED fatal
       \/ Fatal                                    \* line 404 or 406 raises
    /\ UNCHANGED <<current_page, consecutive_failures, all_exhibitors, page_data,
                   read, timed_out, requested, asked, log>>
    /\ UNCHANGED browser
    /\ UNCHANGED frame
    /\ UNCHANGED trial
    /\ UNCHANGED listings

\* lines 410-415: scrape_current_page() again
RetryExtraction(stops) ==
    /\ pc = "retry"
    /\ \E view \in Redrawn(requested) :
       \/ /\ \E seen \in Redrawn(requested) : TimesOut(seen)     \* lines 199-201, 204-206
          /\ timed_out' = TRUE
          /\ read' = [view |-> view, stop |-> 0]
          /\ page_data' = <<>>
          /\ shown' = view
          /\ pc' = "fallback"
          /\ UNCHANGED <<current_page, consecutive_failures, all_exhibitors, log>>
       \/ /\ timed_out' = FALSE            \* line 199, 205, 212 or 213 raises, lines 256-257
          /\ read' = [view |-> view, stop |-> 0]
          /\ page_data' = <<>>
          /\ shown' = view
          /\ pc' = "fallback"
          /\ UNCHANGED <<current_page, consecutive_failures, all_exhibitors, log>>
       \/ /\ \E seen \in Redrawn(requested) : HasDataRows(seen)  \* lines 204-254
          /\ \E stop \in StopsIn(view, stops) :
             /\ timed_out' = FALSE
             /\ read' = [view |-> view, stop |-> stop]
             /\ page_data' = PageRecords[view][stop]
             /\ IF page_data' # <<>>
                THEN /\ MergePage(page_data', "retry")
                     /\ Pause(AfterRead(view, stop))
                ELSE /\ pc' = "fallback"
                     /\ shown' \in AfterRead(view, stop)
                     /\ UNCHANGED <<current_page, consecutive_failures,
                                    all_exhibitors, log>>
    /\ UNCHANGED <<requested, asked, fatal>>
    /\ UNCHANGED browser
    /\ UNCHANGED frame
    /\ UNCHANGED trial
    /\ UNCHANGED listings

\* FallbackRequest with get_data_via_javascript(current_page) at line 417
FallbackRequestOneBased ==
    /\ pc = "fallback"
    /\ \E response \in Responses(current_page) :
         /\ page_data' = GetDataViaJavascript(response)
         /\ IF page_data' # <<>>
            THEN MergePage(page_data', "fallback")
            ELSE FailPage("none")
    /\ Pause({shown})
    /\ UNCHANGED <<read, timed_out, requested, asked, fatal>>
    /\ UNCHANGED browser
    /\ UNCHANGED frame
    /\ UNCHANGED trial
    /\ UNCHANGED listings

\* FallbackRequest without the handler of lines 188-189: an error of the
\* script leaves get_data_via_javascript
FallbackRequestPropagates ==
    /\ pc = "fallback"
    /\ \E response \in Responses(current_page - 1) :
         IF response.raises
         THEN /\ Fatal
              /\ UNCHANGED <<current_page, consecutive_failures, all_exhibitors,
                             page_data, log, shown>>
         ELSE /\ page_data' = GetDataViaJavascript(response)
              /\ IF page_data' # <<>>
                 THEN MergePage(page_data', "fallback")
                 ELSE FailPage("none")
              /\ Pause({shown})
              /\ UNCHANGED fatal
    /\ UNCHANGED <<read, timed_out, requested, asked>>
    /\ UNCHANGED browser
    /\ UNCHANGED frame
    /\ UNCHANGED trial
    /\ UNCHANGED listings

\* lines 416-425: get_data_via_javascript(current_page - 1)
FallbackRequest ==
    /\ pc = "fallback"
    /\ \E response \in Responses(current_page - 1) :
         /\ page_data' = GetDataViaJavascript(response)
         /\ IF page_data' # <<>>
            THEN MergePage(page_data', "fallback")
            ELSE FailPage("none")
    /\ Pause({shown})
    /\ UNCHANGED <<read, timed_out, requested, asked, fatal>>
    /\ UNCHANGED browser
    /\ UNCHANGED frame
    /\ UNCHANGED trial
    /\ UNCHANGED listings

\* lines 437-449: the finally clause.  The quit of line 439 is not
\* protected: when it raises, the exception leaves scrape_all_pages and
\* lines 443-451 do not run.  A failure of rmtree is swallowed at lines
\* 448-449 and leaves the directory.
Finally ==
    /\ pc = "finally"
    /\ \/ /\ IF driver # "none"
             THEN driver' = "closed" /\ quits' = quits + 1       \* lines 438-439
             ELSE UNCHANGED <<driver, quits>>
          /\ temp_dir' \in IF temp_dir = "none" THEN {temp_dir}   \* line 443
                           ELSE {"removed", temp_dir}            \* lines 445-449
          /\ pc' = "return"
          /\ UNCHANGED outcome
       \/ /\ driver # "none"                                     \* line 439 raises
          /\ quits' = quits + 1
          /\ UNCHANGED <<driver, temp_dir>>
          /\ pc' = "done"
          /\ outcome' = "raised"
    /\ UNCHANGED <<max_pages, total_pages, display, scan, result>>
    /\ UNCHANGED <<current_page, consecutive_failures, all_exhibitors, page_data,
                   read, timed_out, shown, requested, asked, log, fatal>>
    /\ UNCHANGED trial
    /\ UNCHANGED listings

\* line 451
Return ==
    /\ pc = "return"
    /\ result' = all_exhibitors
    /\ outcome' = "returned"
    /\ pc' = "done"
    /\ UNCHANGED <<max_pages, total_pages, display, scan>>
    /\ UNCHANGED <<current_page, consecutive_failures, all_exhibitors, page_data,
                   read, timed_out, shown, requested, asked, log, fatal>>
    /\ UNCHANGED browser
    /\ UNCHANGED trial
    /\ UNCHANGED listings

\* What the site does in a whole run.  The TotalRecords element shows 60,
\* or 60 and then nothing; the pagination has the items 1, 2 and 4; a
\* redraw may come while a table is read, before its row RunStops.
RunDisplays == {Shows(<<"6", "0">>),
                [present |-> TRUE, text |-> <<"6", "0">>, cond |-> <<>>, arg |-> <<>>]}
RunScans == {[raises |-> FALSE, attrs |-> <<<<"1">>, <<"2">>, <<"4">>>>]}
RunStops == {8}

CountPages == DeterminePages(RunDisplays, RunScans)
ScrapePage == PrimaryExtraction(RunStops)
ScrapeAgain == RetryExtraction(RunStops)

Next ==
    \/ SetupDriver
    \/ OpenPage
    \/ CountPages
    \/ LoopTest
    \/ ClickPageNumber
    \/ AlternativeNavigation
    \/ WaitForRows
    \/ ScrapePage
    \/ ScrollPage
    \/ ScrapeAgain
    \/ FallbackRequest
    \/ Finally
    \/ Return

Spec == Init /\ [][Next]_vars

----------------------------------------------------------------------------
(* A longer run: the TotalRecords element is missing and the pagination    *)
(* scan gives four pages, of which the site lists the first only; it       *)
(* redraws no table while it is read.                                      *)

LongDisplays == {NoDisplay}
LongStops == {}
LongListings == {1}

CountLongPages == DeterminePages(LongDisplays, RunScans)
ScrapeLongPage == PrimaryExtraction(LongStops)
ScrapeLongAgain == RetryExtraction(LongStops)

InitLong == Start({None}, LongListings) /\ NoTrial

NextLong ==
    \/ SetupDriver
    \/ OpenPage
    \/ CountLongPages
    \/ LoopTest
    \/ ClickPageNumber
    \/ AlternativeNavigation
    \/ WaitForRows
    \/ ScrapeLongPage
    \/ ScrollPage
    \/ ScrapeLongAgain
    \/ FallbackRequest
    \/ Finally
    \/ Return

SpecLong == InitLong /\ [][NextLong]_vars

----------------------------------------------------------------------------
(* The page count alone, lines 325-357, on every short text of the         *)
(* TotalRecords element, and on texts that change between the reads.       *)

CountChars == {"0", "1", "7", "9", "x", "-", Blank}
Texts == UNION {[1..n -> CountChars] : n \in 0..MaxTextLen}

\* the texts of an element that changes between its reads
ChangingTexts == {<<>>, <<Blank>>, <<"7">>, <<"x">>, <<"1", "9", "0">>}

AllDisplays ==
    {NoDisplay}
    \cup {Shows(t) : t \in Texts}
    \cup {[present |-> TRUE, text |-> a, cond |-> b, arg |-> c] :
            a \in ChangingTexts, b \in ChangingTexts, c \in ChangingTexts}
AllScans ==
    {[raises |-> TRUE, attrs |-> <<>>]}
    \cup {[raises |-> FALSE, attrs |-> a] :
            a \in {<<>>, <<<<"0">>>>, <<<<"1">>, <<"2">>, <<"4">>>>,
                   <<<<"prev">>, <<"1">>, <<"1", "2">>, <<>>, <<"next">>>>}}
AllMaxPages == {None, <<1>>, <<3>>, <<6>>}

CountAnyPages == DeterminePages(AllDisplays, AllScans)

InitCount == Start(AllMaxPages, RunListings) /\ NoTrial

NextCount ==
    \/ SetupDriver
    \/ OpenPage
    \/ CountAnyPages

SpecCount == InitCount /\ [][NextCount]_vars

----------------------------------------------------------------------------
(* The two extractors alone: scrape_current_page (lines 193-259) on a      *)
(* rendered table and get_data_via_javascript (lines 121-191) on a         *)
(* fragment with the same rows.                                            *)

\* the classes of a cell: at most one of the two, or both in short rows
CellKinds(n) ==
    {{}, {"fixed-col"}, {"hidden-col"}}
    \cup IF n <= MaxCellsBoth THEN {{"fixed-col", "hidden-col"}} ELSE {}

\* the text of the i-th cell of a row, with the padding the site's markup has
CellText(i) ==
    IF i % 2 = 0 THEN <<Blank, "t", ToString(i)>> ELSE <<"t", ToString(i), Blank>>

\* the rows of n cells, each cell of any kind
CellRows(n) ==
    {[marker |-> TRUE, broken |-> FALSE,
      cells |-> [i \in 1..n |-> Cell(kinds[i], CellText(i))]] :
        kinds \in [1..n -> CellKinds(n)]}

\* a row whose hidden cell follows the name
AcmeRow ==
    [marker |-> TRUE, broken |-> FALSE,
     cells |-> <<Cell({"fixed-col"}, <<"Acme", Blank, "Co">>),
                 Cell({"hidden-col"}, <<"internal-id">>),
                 Cell({}, <<"B12">>), Cell({}, <<"UAE">>), Cell({}, <<"Energy">>),
                 Cell({}, <<"Solar">>), Cell({}, <<"Hall", Blank, "3">>)>>]

RowKinds == {"listing", "header", "nameless", "short", "stale"}

\* the i-th row of a table, of the given kind
TableRow(kind, i) ==
    CASE kind = "listing" -> ListingRow(ExhibitorName(1, i))
      [] kind = "header" -> HeaderRow
      [] kind = "nameless" -> ListingRow(<<>>)
      [] kind = "short" -> ShortRow
      [] kind = "stale" -> StaleRow

\* the tables of n rows, each row of any kind
Tables(n) == {[i \in 1..n |-> TableRow(kinds[i], i)] : kinds \in [1..n -> RowKinds]}

Samples ==
    {<<row>> : row \in UNION {CellRows(n) : n \in 0..MaxCells}}
    \cup UNION {Tables(n) : n \in 0..MaxRows}
    \cup {<<AcmeRow>>}

InitExtract ==
    /\ Start({None}, RunListings)
    /\ rendered \in BOOLEAN
    /\ sample \in Samples
    /\ extracted = <<>>
    /\ scripted = <<>>

\* lines 193-259: scrape_current_page() while the browser shows the sample,
\* or a page without the table
ScrapeSample ==
    /\ extracted = <<>>
    /\ extracted' = <<ScrapeCurrentPage([table |-> rendered, rows |-> sample])>>
    /\ UNCHANGED <<rendered, sample, scripted, listings>>
    /\ UNCHANGED <<pc, shown, requested, asked, fatal>>
    /\ UNCHANGED browser
    /\ UNCHANGED run_vars

\* lines 121-191: get_data_via_javascript() while the endpoint answers with
\* a fragment of the same rows
FetchSample ==
    /\ scripted = <<>>
    /\ scripted' = <<GetDataViaJavascript([raises |-> FALSE, status |-> 200,
                                           rows |-> sample])>>
    /\ UNCHANGED <<rendered, sample, extracted, listings>>
    /\ UNCHANGED <<pc, shown, requested, asked, fatal>>
    /\ UNCHANGED browser
    /\ UNCHANGED run_vars

NextExtract ==
    \/ ScrapeSample
    \/ FetchSample

SpecExtract == InitExtract /\ [][NextExtract]_vars

----------------------------------------------------------------------------
(* Properties of the page count. *)

\* lines 325-357 have run
Counted == DisplayReadable(display) \/ scan # NotScanned

\* the count line 337 takes from the element: 0 when the text is empty in
\* its condition, else the integer read by int()
DisplayedCount == IF display.cond # <<>> THEN ParseInt(display.arg).val ELSE 0

\* the least k with k * 20 >= n
CeilPages(n) == CHOOSE k \in 0..n : k * 20 >= n /\ (k - 1) * 20 < n

\* C6: whenever the caller supplies max_pages, the total_pages the page loop
\* uses is at most max_pages, however the page count was determined.
C6_CapAlwaysApplied ==
    (Counted /\ max_pages # None) => total_pages <= max_pages[1]

\* C7: when the TotalRecords text is present and line 337 parses it as an
\* integer n >= 1, total_pages is ceil(n / 20), capped by max_pages when
\* one is given.
C7_CeilOfTotalRecords ==
    (DisplayReadable(display) /\ DisplayedCount >= 1) =>
        LET n == DisplayedCount
        IN  total_pages = IF max_pages # None THEN Min(CeilPages(n), max_pages[1])
                          ELSE CeilPages(n)

\* C7, witness: the count 101 was read and gave 6 pages.
C7_Witness ==
    /\ display = Shows(<<"1", "0", "1">>)
    /\ max_pages = None
    /\ total_pages = 6
    /\ pc = "loop"

\* the TotalRecords count is 0, unavailable or unparsable
CountUnusable(d) ==
    \/ ~d.present
    \/ Strip(d.text) = <<>>
    \/ d.cond = <<>>
    \/ ~ParseInt(d.arg).ok
    \/ ParseInt(d.arg).val = 0

\* C8: when the TotalRecords count is 0, unavailable or unparsable, total_pages
\* is the largest page index of the pagination scan, or, when the scan yields
\* none, max_pages when given and 5 otherwise; it is never 0 from a count of 0.
C8_ZeroCountFallsBack ==
    (Counted /\ CountUnusable(display)) =>
        /\ scan # NotScanned
        /\ total_pages =
             IF ~scan.raises /\ PageNumbers(scan.attrs) # <<>>
             THEN MaxOf(PageNumbers(scan.attrs))
             ELSE IF max_pages # None THEN max_pages[1] ELSE 5

----------------------------------------------------------------------------
(* Properties of the page loop. *)

InBody == pc \in {"navigate", "alt_nav", "wait_rows", "primary", "scroll",
                  "retry", "fallback"}
Left == pc \in {"finally", "return", "done"}

RECURSIVE SumFound(_)
SumFound(entries) ==
    IF entries = <<>> THEN 0 ELSE Head(entries).found + SumFound(Tail(entries))

\* C1: a page iteration that ends with no record from the primary extraction,
\* the retry and the fallback adds exactly 1 to consecutive_failures; an
\* iteration in which one of them yields a record sets it to 0.
C1_FailureCounter ==
    [][ /\ (InBody /\ all_exhibitors' # all_exhibitors) => consecutive_failures' = 0
        /\ (pc = "fallback" /\ all_exhibitors' = all_exhibitors)
               => consecutive_failures' = consecutive_failures + 1
        /\ Len(log') = Len(log) + 1 =>
              LET e == log'[Len(log')]
              IN  /\ e.found >= 1 => consecutive_failures' = 0
                  /\ e.path = "none" => consecutive_failures' = consecutive_failures + 1
      ]_vars

\* C1, witness: two pages gave nothing, then the fallback of the third page
\* gave records and the counter went from 2 to 0.
C1_Witness ==
    /\ Len(log) = 3
    /\ log[1].path = "none" /\ log[2].path = "none"
    /\ log[3].path = "fallback" /\ log[3].found >= 1
    /\ consecutive_failures = 0

\* C2: the counter stays within 0..3, no iteration starts or runs with the
\* counter at 3 or with current_page > total_pages, and the loop is left
\* exactly when the counter is 3 or the pages are exhausted (unless an
\* exception escaped).
C2_StopsAtThreeFailures ==
    /\ [](consecutive_failures \in 0..3)
    /\ [](InBody => consecutive_failures < 3 /\ current_page <= total_pages)
    /\ []((Left /\ ~fatal) => consecutive_failures = 3 \/ current_page > total_pages)
    /\ [][pc = "loop" =>
            (pc' = "finally" <=>
                (consecutive_failures = 3 \/ current_page > total_pages))]_vars

\* C2, witness: the run ended at the third failure with pages left.
C2_Witness ==
    /\ pc = "done"
    /\ ~fatal
    /\ consecutive_failures = 3
    /\ current_page <= total_pages

HasName(exhibitor_data) == exhibitor_data["Exhibitor Name"] # <<>>

\* C3: neither the aggregate nor the returned list ever holds a record whose
\* 'Exhibitor Name' is empty.
C3_NoEmptyName ==
    /\ \A i \in 1..Len(all_exhibitors) : HasName(all_exhibitors[i])
    /\ \A i \in 1..Len(result) : HasName(result[i])

\* C3, witness: records of a scraped table and of a fallback answer, both of
\* which held rows without a name, are in the aggregate.
C3_Witness ==
    /\ \E i \in 1..Len(log) : log[i].path = "primary" /\ log[i].found >= 1
    /\ \E i \in 1..Len(log) : log[i].path = "fallback" /\ log[i].found >= 1
    /\ Len(all_exhibitors) = SumFound(log)

\* C4: the driver is quit at most once; on every path on which it was
\* acquired, once the function has been left the driver was quit exactly
\* once and is closed, and the temporary directory is gone.
C4_DriverReleased ==
    /\ quits <= 1
    /\ driver = "none" => quits = 0
    /\ (pc \in {"return", "done"} /\ driver # "none") =>
          /\ driver = "closed"
          /\ quits = 1
          /\ temp_dir = "removed"

\* C5: once the function has been left after a page was merged, it has
\* returned, and what it returned is the whole aggregate: every record
\* merged before the stop; when the driver could not be created it has
\* returned the empty list.
C5_PartialResultsReturned ==
    /\ (pc = "done" /\ all_exhibitors # <<>>) =>
          /\ outcome = "returned"
          /\ result = all_exhibitors
          /\ Len(result) = SumFound(log)
    /\ (pc = "done" /\ driver = "none") =>
          /\ outcome = "returned"
          /\ result = <<>>

\* the pages of the scenario of C9: path and number of records
Scenario == <<[path |-> "primary", found |-> 20], [path |-> "fallback", found |-> 15],
              [path |-> "primary", found |-> 20]>>

AsInScenario ==
    /\ total_pages = 3
    /\ Len(log) <= 3
    /\ \A i \in 1..Len(log) :
          log[i].page = i /\ log[i].path = Scenario[i].path
                          /\ log[i].found = Scenario[i].found

\* C9: a 3-page run whose page 1 yields 20 records from the table, page 2
\* none from the table and 15 from the fallback, page 3 20 from the table,
\* ends with an aggregate of 55 records, which is what is returned, with
\* consecutive_failures = 0, having exhausted the pages.
C9_ThreePageScenario ==
    (pc = "done" /\ ~fatal /\ AsInScenario) =>
        /\ Len(log) = 3
        /\ Len(all_exhibitors) = 55
        /\ outcome = "returned" => Len(result) = 55
        /\ consecutive_failures = 0
        /\ current_page > total_pages

\* C9, witness: the scenario ran to its end and 55 records were returned.
C9_Witness ==
    /\ pc = "done" /\ ~fatal /\ AsInScenario
    /\ Len(log) = 3
    /\ outcome = "returned"
    /\ Len(result) = 55

\* pages n, n + 1 and n + 2 were visited and gave no record
ThreeEmptyFrom(n) ==
    /\ n + 2 <= Len(log)
    /\ \A i \in n..(n + 2) : log[i].page = i /\ log[i].found = 0

\* C10: once pages N, N+1, N+2 each gave no record, no further page is
\* visited, consecutive_failures is 3, and what is returned is what was
\* collected before page N.
C10_AbortAfterThreeEmptyPages ==
    \A n \in 1..Len(log) :
        ThreeEmptyFrom(n) =>
            /\ Len(log) = n + 2
            /\ current_page = n + 3
            /\ consecutive_failures = 3
            /\ ~InBody
            /\ Len(all_exhibitors) = (IF n = 1 THEN 0 ELSE log[n - 1].total)
            /\ outcome = "returned" => result = all_exhibitors

\* C10, witness: of 4 pages, pages 1 to 3 gave no record, and the run ended
\* without visiting page 4, returning nothing.
C10_Witness ==
    /\ pc = "done"
    /\ outcome = "returned"
    /\ total_pages = 4
    /\ Len(log) = 3
    /\ ThreeEmptyFrom(1)
    /\ current_page = 4
    /\ result = <<>>

----------------------------------------------------------------------------
(* Properties of the extractors. *)

IsFixed(cell) == "fixed-col" \in cell.cls
IsPlain(cell) == "fixed-col" \notin cell.cls /\ "hidden-col" \notin cell.cls

\* the name a row resolves to: the text of its last cell flagged fixed-col
RowName(row) ==
    LET fixed == SelectSeq(row.cells, IsFixed)
    IN  IF fixed = <<>> THEN <<>> ELSE Strip(fixed[Len(fixed)].text)

\* the record of a row by the ordinal of its cells that are neither hidden
\* nor fixed: the k-th of them fills the k-th field, for k up to 5
RecordByOrdinal(row) ==
    LET plain == SelectSeq(row.cells, IsPlain)
    IN  [f \in DOMAIN EmptyRecord |->
            IF f = "Exhibitor Name" THEN RowName(row)
            ELSE LET k == CHOOSE j \in 1..Len(Fields) : Fields[j] = f
                 IN  IF k <= Len(plain) THEN Strip(plain[k].text) ELSE <<>>]

\* the table is a single data row that can be read
SingleRow == rendered /\ Len(sample) = 1 /\ sample[1].marker /\ ~sample[1].broken

\* C11: in a data row the cell flagged fixed-col gives the name wherever it
\* stands, cells flagged hidden-col are skipped without taking an ordinal, and
\* the remaining cells fill Stand No, Country, Sector, Business Activity and
\* Hall by their ordinal among them; a sixth such cell is ignored and a field
\* without a cell stays empty.
C11_CellsByClass ==
    (SingleRow /\ extracted # <<>> /\ RowName(sample[1]) # <<>>) =>
        extracted[1] = <<RecordByOrdinal(sample[1])>>

\* C11, witness: the row [fixed "Acme Co", hidden "internal-id", "B12", "UAE",
\* "Energy", "Solar", "Hall 3"] was extracted.
C11_Witness ==
    /\ rendered
    /\ sample = <<AcmeRow>>
    /\ extracted =
         <<<<"Exhibitor Name" :> <<"Acme", Blank, "Co">> @@ "Stand No" :> <<"B12">> @@
             "Country" :> <<"UAE">> @@ "Sector" :> <<"Energy">> @@
             "Business Activity" :> <<"Solar">> @@ "Hall" :> <<"Hall", Blank, "3">>>>>>

\* the table is shown and every row of it can be read
Readable == rendered /\ \A i \in 1..Len(sample) : ~sample[i].broken

\* C12: the fallback applies the cell-classification rules of the DOM
\* extractor: on the same data rows get_data_via_javascript and
\* scrape_current_page return the same records, a row discarded by one
\* being discarded by the other.
C12_FallbackSameRules ==
    (Readable /\ extracted # <<>> /\ scripted # <<>>) => scripted[1] = extracted[1]

\* the names of the records
Names(records) == [k \in 1..Len(records) |-> records[k]["Exhibitor Name"]]

\* C13: scrape_current_page returns exactly one record for every row that
\* carries the marker class, so the length of its result is the number of
\* such rows, and a row without the marker class never gives a record.
C13_OneRecordPerDataRow ==
    (rendered /\ extracted # <<>>) =>
        /\ Len(extracted[1]) = Len(SelectSeq(sample, IsDataRow))
        /\ \A i \in 1..Len(sample) : \A k \in 1..Len(extracted[1]) :
              ~sample[i].marker => Names(extracted[1])[k] # RowName(sample[i])

\* a row that carries the marker class, can be read and resolves to a name
Named(row) == row.marker /\ ~row.broken /\ RowName(row) # <<>>

\* C13, amended: scrape_current_page returns exactly one record, in row
\* order, for every row that carries the marker class, can be read and
\* resolves to a non-empty name, and no record for any other row; a row
\* without the marker class never gives a record.
C13_OneRecordPerNamedRow ==
    (rendered /\ extracted # <<>>) =>
        LET named == SelectSeq(sample, Named)
        IN  /\ Len(extracted[1]) = Len(named)
            /\ Names(extracted[1]) = [k \in 1..Len(named) |-> RowName(named[k])]

\* C13, witness: of a header row, a row without a name and a listing row,
\* the listing row alone gave a record.
C13_Witness ==
    /\ rendered
    /\ Len(sample) = 3
    /\ sample[1] = HeaderRow
    /\ sample[2] = ListingRow(<<>>)
    /\ Named(sample[3])
    /\ extracted # <<>>
    /\ Names(extracted[1]) = <<ExhibitorName(1, 3)>>

----------------------------------------------------------------------------
(* Properties of the aggregate and of the steps of a page iteration. *)

\* the records a step appends to the aggregate
Appended == SubSeq(all_exhibitors', Len(all_exhibitors) + 1, Len(all_exhibitors'))

\* the records are the first rows of one listing of the site, in row order
RowsOfOneListing(records) ==
    \E q \in 1..(current_page + 1) :
        Names(records) = [k \in 1..Len(records) |-> ExhibitorName(q, k)]

\* C14: the aggregate is append-only and ordered page, then row: no step
\* removes, changes or reorders a record already in it; records are added
\* only by the step that ends the iteration of current_page, so those of an
\* earlier iteration precede those of a later one; the records added are rows
\* in the order of the table; and an iteration adds the result of a single
\* path (primary, retry or fallback), once.
C14_AppendOnlyInPageOrder ==
    [][ /\ Len(all_exhibitors') >= Len(all_exhibitors)
        /\ SubSeq(all_exhibitors', 1, Len(all_exhibitors)) = all_exhibitors
        /\ current_page' >= current_page
        /\ all_exhibitors' # all_exhibitors =>
              /\ pc \in {"primary", "retry", "fallback"}
              /\ current_page' = current_page + 1
              /\ \A i \in 1..Len(log) : log[i].page < current_page
              /\ log' = Append(log, [page |-> current_page,
                                      path |-> pc,
                                      found |-> Len(Appended),
                                      total |-> Len(all_exhibitors')])
              /\ RowsOfOneListing(Appended)
      ]_vars

\* C14, witness: page 1 came from the primary extraction and page 2 from the
\* fallback, and the aggregate holds the rows of page 1, then those of page 2.
C14_Witness ==
    /\ Len(log) = 2
    /\ log[1].path = "primary" /\ log[1].found = 20
    /\ log[2].path = "fallback" /\ log[2].found = 15
    /\ Names(all_exhibitors) =
         [k \in 1..35 |-> IF k <= 20 THEN ExhibitorName(1, k)
                          ELSE ExhibitorName(2, k - 20)]

\* C16: within a page iteration the steps come in this order: the wait for
\* rows, the primary extraction, then, only if it returned nothing, the
\* scroll and exactly one retry, then, only if the retry returned nothing,
\* the fallback.  The fallback is never reached in an iteration whose DOM
\* extraction returned a record, and it is asked for the zero-based page
\* current_page - 1: what it adds are the rows of page current_page.
C16_StepOrder ==
    [][ /\ pc' = "primary" => pc = "wait_rows"
        /\ pc' = "scroll" => pc = "primary" /\ page_data' = <<>>
        /\ pc' = "retry" => pc = "scroll"
        /\ pc' = "fallback" => pc = "retry" /\ page_data' = <<>>
        /\ pc \in {"primary", "retry"} /\ page_data' # <<>> =>
              pc' = "loop" /\ Appended = page_data'
        /\ page_data' # page_data => pc \in {"primary", "retry", "fallback"}
        /\ pc \in {"primary", "scroll", "retry", "fallback"} /\ pc' # "loop" =>
              current_page' = current_page
        /\ pc = "fallback" /\ all_exhibitors' # all_exhibitors =>
              Names(Appended) =
                  [k \in 1..Len(Appended) |-> ExhibitorName((current_page - 1) + 1, k)]
      ]_vars

\* C16, witness: the first page came from the fallback, asked for page
\* number 0, after the primary extraction and the retry returned nothing.
C16_Witness ==
    /\ Len(log) = 1
    /\ log[1] = [page |-> 1, path |-> "fallback", found |-> 15, total |-> 15]
    /\ Names(all_exhibitors) = [k \in 1..15 |-> ExhibitorName(1, k)]

----------------------------------------------------------------------------
(* Properties of the advance to the next page. *)

\* the iteration of current_page is past its advance
Advanced == pc \in {"wait_rows", "primary", "scroll", "retry", "fallback"}

\* C17: an advance to page N by script calls SetPageNumber with the
\* zero-based N - 1, in click_page_number as in the alternative navigation
\* of scrape_all_pages: once the advance of an iteration is done, the page
\* the site was asked for is current_page.
C17_ScriptAsksForPage ==
    Advanced => requested = current_page

\* C18: after the advance to page N a successful wait for a data row tells
\* that the table was updated: the rows the DOM extraction of iteration N
\* adds are never the rows of page N - 1 that were still displayed, so the
\* rows of a page are not added twice.
C18_WaitSeesTheNewPage ==
    [][ (pc \in {"primary", "retry"} /\ current_page > 1
           /\ all_exhibitors' # all_exhibitors) =>
            Names(Appended) #
                [k \in 1..Len(Appended) |-> ExhibitorName(current_page - 1, k)]
      ]_vars

\* C19: every failure of an advance (click_page_number returned False) is
\* caught without ending the run, adds 1 to consecutive_failures, and
\* current_page still advances by one.
C19_AdvanceFailureCounted ==
    [][ pc = "alt_nav" =>
            /\ ~fatal'
            /\ consecutive_failures' = consecutive_failures + 1
            /\ current_page' = current_page + 1
      ]_vars

\* C19, amended: no failure of an advance ends the run.  When
\* click_page_number fails, the alternative script SetPageNumber(current_page
\* - 1) is tried first: if it runs, the iteration goes on to the wait for
\* rows of the same page with consecutive_failures unchanged; only if it
\* raises too is 1 added to consecutive_failures and current_page advanced
\* by one, with nothing added to the aggregate.
C19_AdvanceFailureHandled ==
    [][ /\ pc \in {"navigate", "alt_nav"} => ~fatal' /\ pc' # "finally"
        /\ pc = "navigate" =>
              /\ pc' \in {"wait_rows", "alt_nav"}
              /\ UNCHANGED <<consecutive_failures, current_page, all_exhibitors>>
        /\ pc = "alt_nav" =>
              \/ /\ pc' = "wait_rows"
                 /\ requested' = current_page
                 /\ UNCHANGED <<consecutive_failures, current_page, all_exhibitors>>
              \/ /\ pc' = "loop"
                 /\ consecutive_failures' = consecutive_failures + 1
                 /\ current_page' = current_page + 1
                 /\ UNCHANGED all_exhibitors
      ]_vars

\* C19, witness: the advance to page 2 failed in click_page_number and in
\* the alternative script; the failure was counted and the loop is at page 3.
C19_Witness ==
    /\ pc = "loop"
    /\ Len(log) = 2
    /\ log[2] = [page |-> 2, path |-> "navigation", found |-> 0, total |-> 20]
    /\ consecutive_failures = 1
    /\ current_page = 3
    /\ ~fatal

----------------------------------------------------------------------------
(* Properties of the waits. *)

\* C20: a timeout of a readiness wait is recoverable and counted: the run
\* goes on, and the page on which the timeout occurred adds 1 to
\* consecutive_failures.  (At the retry timed_out tells of the primary
\* extraction of the page, at the fallback of its retry.)
C20_TimeoutCounted ==
    [][ /\ (pc \in {"primary", "retry"} /\ timed_out') =>
              ~fatal' /\ pc' # "finally"
        /\ (pc \in {"retry", "fallback"} /\ pc' = "loop"
              /\ (timed_out \/ timed_out')) =>
              consecutive_failures' = consecutive_failures + 1
      ]_vars

\* C20, amended: a timeout of a readiness wait is recoverable: after the
\* per-page wait the primary extraction runs with nothing counted, and a
\* timeout inside scrape_current_page makes it return nothing, so that the
\* iteration goes on to the scroll and the retry, then to the fallback.  The
\* timeout itself is not counted: the page adds 1 to consecutive_failures
\* only if the retry and the fallback yield no record either, and the
\* counter is set to 0 if one of them yields a record.
C20_TimeoutRecoverable ==
    [][ /\ (pc = "wait_rows" /\ ~fatal') =>
              /\ pc' = "primary"
              /\ UNCHANGED <<consecutive_failures, current_page, all_exhibitors>>
        /\ (pc \in {"primary", "retry"} /\ timed_out') =>
              /\ ~fatal'
              /\ page_data' = <<>>
              /\ pc' = IF pc = "primary" THEN "scroll" ELSE "fallback"
              /\ UNCHANGED <<consecutive_failures, current_page, all_exhibitors>>
        /\ (pc \in {"retry", "fallback"} /\ pc' = "loop") =>
              consecutive_failures' =
                  IF all_exhibitors' = all_exhibitors THEN consecutive_failures + 1
                  ELSE 0
      ]_vars

\* C20, witness: page 1 gave nothing and was counted; on page 2 the page
\* had no table, the wait for it inside the retry (line 199) timed out, and
\* the iteration is at the fallback, nothing more counted.
C20_Witness ==
    /\ pc = "fallback"
    /\ timed_out
    /\ read = [view |-> NoTable, stop |-> 0]
    /\ shown = NoTable
    /\ page_data = <<>>
    /\ current_page = 2
    /\ Len(log) = 1 /\ log[1].path = "none"
    /\ consecutive_failures = 1
    /\ ~fatal

----------------------------------------------------------------------------
(* Properties of the fallback and of the end of an iteration. *)

\* C21: a failure inside the fallback (the script raises, the endpoint does
\* not answer 200, the answer holds no usable row) never leaves
\* get_data_via_javascript: the fallback step does not end the run, and when
\* it brings no record the aggregate is unchanged, the page is counted as
\* one failure and the loop goes on with the next page.
C21_FallbackFailureContained ==
    [][ pc = "fallback" =>
            /\ ~fatal'
            /\ pc' = "loop"
            /\ current_page' = current_page + 1
            /\ \/ /\ all_exhibitors' = all_exhibitors
                  /\ consecutive_failures' = consecutive_failures + 1
                  /\ log' = Append(log, [page |-> current_page, path |-> "none",
                                          found |-> 0, total |-> Len(all_exhibitors)])
               \/ /\ Appended # <<>>
                  /\ consecutive_failures' = 0
      ]_vars

\* C21, witness: page 1 gave 20 records, the fallback of page 2 failed
\* after an empty table, and the loop goes on with page 3, the 20 records
\* kept and one failure counted.
C21_Witness ==
    /\ pc = "loop"
    /\ ~fatal
    /\ Len(log) = 2
    /\ log[2] = [page |-> 2, path |-> "none", found |-> 0, total |-> 20]
    /\ Len(all_exhibitors) = 20
    /\ consecutive_failures = 1
    /\ current_page = 3

\* row i of the sample carries the marker class and reading it raises
Fails(i) == sample[i].marker /\ sample[i].broken

\* C22: in scrape_current_page a row whose extraction fails is skipped
\* alone: every other data row with a non-empty name, before and after it,
\* still gives its record, in row order; and when the table is not on the
\* page, or has no data row, the result is the empty sequence.
C22_RowFailureSkipsRow ==
    extracted # <<>> =>
        /\ (rendered /\ \E i \in 1..Len(sample) : Fails(i)) =>
              LET named == SelectSeq(sample, Named)
              IN  extracted[1] = [k \in 1..Len(named) |-> RecordByOrdinal(named[k])]
        /\ (~rendered \/ SelectSeq(sample, IsDataRow) = <<>>) => extracted[1] = <<>>

\* C22, witness: of a listing row, a row that cannot be read and another
\* listing row, the first and the third gave their records.
C22_Witness ==
    /\ rendered
    /\ Len(sample) = 3
    /\ Named(sample[1]) /\ Fails(2) /\ Named(sample[3])
    /\ extracted # <<>>
    /\ Names(extracted[1]) = <<ExhibitorName(1, 1), ExhibitorName(1, 3)>>

\* the loop of lines 363-429 is running
InLoop == pc = "loop" \/ InBody

\* the steps of an iteration still ahead, the loop test counted as the first
StepsAhead ==
    CASE pc = "loop" -> 8 [] pc = "navigate" -> 7 [] pc = "alt_nav" -> 6
      [] pc = "wait_rows" -> 5 [] pc = "primary" -> 4 [] pc = "scroll" -> 3
      [] pc = "retry" -> 2 [] pc = "fallback" -> 1

\* the pages still to visit, the current one included
PagesAhead == IF current_page <= total_pages THEN total_pages - current_page + 1 ELSE 0

\* a bound on the steps the loop can still take
LoopRank == 9 * PagesAhead + StepsAhead

\* C23: the page loop terminates.  current_page is 1 when the loop starts,
\* grows by exactly 1 at the end of every iteration on every path (the
\* "continue" of a failed navigation included) and changes nowhere else;
\* total_pages does not change once the loop has started; so every step of
\* the loop lowers a bound on the steps still ahead, the body runs at most
\* total_pages times, and the pages visited are 1, 2, 3, ... each once.
C23_LoopTerminates ==
    /\ [][pc = "count" => current_page' = 1]_vars
    /\ [][InLoop => total_pages' = total_pages]_vars
    /\ [][InLoop => current_page' \in {current_page, current_page + 1}]_vars
    /\ [][(InBody /\ pc' = "loop") => current_page' = current_page + 1]_vars
    /\ [][(InLoop /\ pc' # "loop") => current_page' = current_page]_vars
    /\ [][(InLoop /\ InLoop') => LoopRank' < LoopRank]_vars
    /\ [](InLoop => LoopRank >= 1)
    /\ [](InBody => current_page \in 1..total_pages)
    /\ [](\A i \in 1..Len(log) : log[i].page = i)
    /\ []((InLoop \/ Left) => Len(log) <= (IF total_pages > 0 THEN total_pages ELSE 0))

\* C23, witness: a loop of 3 pages ran through all of them, a navigation
\* failure included, and was left with current_page = 4.
C23_Witness ==
    /\ pc = "finally"
    /\ ~fatal
    /\ total_pages = 3
    /\ Len(log) = 3
    /\ \E i \in 1..3 : log[i].path = "navigation"
    /\ current_page = 4

\* the step gives up the advance: the alternative script raised too
GivesUpAdvance ==
    /\ pc = "alt_nav"
    /\ \/ pc' = "loop"
       \/ consecutive_failures' # consecutive_failures
       \/ current_page' # current_page
       \/ log' # log

\* C24: when, for a page N > 1, click_page_number reports failure and the
\* alternative script raises too, the iteration ends at once: the next step
\* is the loop test, with no wait, extraction, scroll or fallback for page N
\* and the browser untouched; the aggregate is unchanged,
\* consecutive_failures and current_page each grow by exactly 1.  No advance
\* is attempted for page 1.
C24_FailedAdvanceEndsIteration ==
    /\ [][ GivesUpAdvance =>
              /\ pc' = "loop"
              /\ consecutive_failures' = consecutive_failures + 1
              /\ current_page' = current_page + 1
              /\ log' = Append(log, [page |-> current_page, path |-> "navigation",
                                      found |-> 0, total |-> Len(all_exhibitors)])
              /\ UNCHANGED <<all_exhibitors, shown, requested, fatal>>
              /\ UNCHANGED browser
              /\ UNCHANGED frame
        ]_vars
    /\ [][ (pc = "loop" /\ current_page = 1) => pc' \in {"wait_rows", "finally"} ]_vars
    /\ [](pc \in {"navigate", "alt_nav"} => current_page > 1)
    /\ [](\A i \in 1..Len(log) : log[i].path = "navigation" => log[i].page > 1)

\* C24, witness: pages 1 and 2 gave 20 records each, the advance to page 3
\* failed in click_page_number and in the alternative script, and the loop
\* test is next with the 40 records, one failure and current_page = 4.
C24_Witness ==
    /\ pc = "loop"
    /\ Len(log) = 3
    /\ log[3] = [page |-> 3, path |-> "navigation", found |-> 0, total |-> 40]
    /\ Len(all_exhibitors) = 40
    /\ consecutive_failures = 1
    /\ current_page = 4

====
